---------------------------- MODULE Spec2Model ----------------------------
(***************************************************************************)
(* A model of bitloom's protocol schema core (src/models/protocol.rs and   *)
(* src/models/field.rs): FieldRule, Protocol and its field mutation API,   *)
(* ProtocolRegistry with its inheritance graph, and Packet.                *)
(*                                                                         *)
(* Every method of the source is a pure operator from the receiver (and    *)
(* the arguments) to a record holding the returned Result and the receiver *)
(* as the call leaves it; the actions apply these operators to the state.  *)
(***************************************************************************)
EXTENDS Integers, Sequences, FiniteSets, TLC

VARIABLES
    proto,            \* a Protocol owned directly by the caller
    last,             \* the last Protocol method called and its Result
    protocols,        \* ProtocolRegistry.protocols: id -> Protocol
    rlast,            \* the last registry method called and its Result
    overflow_checks,  \* build profile: TRUE when integer overflow panics, FALSE when it wraps
    packet,           \* a Packet owned by the caller
    plast             \* the last Packet method called and what it returned, and
                      \* the rules the packet was built from

vars == <<proto, last, protocols, rlast, overflow_checks, packet, plast>>

-----------------------------------------------------------------------------
(* Bounds of the model *)

\* the most fields a Protocol of the model holds (add_field is not called beyond it)
MaxFields == 3

\* the most protocols the registry of the model holds
MaxProtocols == 3

\* field ids the caller uses
FieldIds == {"f1", "f2", "f3"}

\* bit widths the caller uses for Fixed fields
FieldBits == {4, 8}

\* protocol ids the caller uses
ProtocolIds == {"p1", "p2", "p3", "p4"}

\* target indices the caller passes to move_field (0-based, as in the source)
MoveIndices == 0 .. MaxFields

-----------------------------------------------------------------------------
(* Values *)

\* Option::None
None == "None"

\* A u32 is held as two 16-bit limbs, hi * 2^16 + lo: TLC's integers end at
\* 2^31 - 1, below u32::MAX
U32Limb == 2 ^ 16

\* the u32 of a number below 2^31
U32(n) == [hi |-> n \div U32Limb, lo |-> n % U32Limb]

\* u32::MAX
U32Max == [hi |-> U32Limb - 1, lo |-> U32Limb - 1]

\* a + b on u32: the sum modulo 2^32, and whether it overflowed
U32Add(a, b) ==
    LET lo == a.lo + b.lo
        hi == a.hi + b.hi + (lo \div U32Limb)
    IN  [overflow |-> hi >= U32Limb,
         value |-> [hi |-> hi % U32Limb, lo |-> lo % U32Limb]]

\* FieldLength::Fixed(bits), bits a u32
FixedLen(bits) == [kind |-> "Fixed", bits |-> bits]

\* FieldLength::Variable
VariableLen == [kind |-> "Variable"]

\* ProtocolLength::Fixed(bits), bits a u32
PLFixed(bits) == [kind |-> "Fixed", bits |-> bits]

\* ProtocolLength::Variable(prefix bits)
PLVariable(bits) == [kind |-> "Variable", bits |-> bits]

\* HashMap::new()
EmptyMap == [k \in {} |-> None]

\* HashMap::insert
MapInsert(m, key, value) ==
    [k \in (DOMAIN m) \cup {key} |-> IF k = key THEN value ELSE m[k]]

\* HashMap::remove
MapRemove(m, key) == [k \in (DOMAIN m) \ {key} |-> m[k]]

\* FieldRule::new: no name, no description
FieldRule_new(id, field_type, length) ==
    [id |-> id, name |-> None, field_type |-> field_type, length |-> length,
     description |-> None]

\* Protocol::new: no fields, length Fixed(0), empty maps
Protocol_new(id, name, endianness, parent_id) ==
    [id |-> id, name |-> name, endianness |-> endianness, fields |-> <<>>,
     length |-> PLFixed(U32(0)), description |-> None, metadata |-> EmptyMap,
     parent_id |-> parent_id, parent_constraints |-> EmptyMap]

\* the Results of the model: Ok(()), Err(message), or a panic that unwinds the call
Ok(p) == [res |-> "Ok", err |-> "", p |-> p]
Err(kind, p) == [res |-> "Err", err |-> kind, p |-> p]
Panic(p) == [res |-> "Panic", err |-> "attempt to add with overflow", p |-> p]

-----------------------------------------------------------------------------
(* Vec helpers; the source indexes from 0, sequences from 1 *)

\* iter().any(|f| f.id == id)
AnyFieldId(fields, id) == \E i \in 1 .. Len(fields) : fields[i].id = id

\* iter().position(|f| f.id == id) + 1: the first match (0 when there is none)
Position(fields, id) ==
    IF AnyFieldId(fields, id)
    THEN CHOOSE i \in 1 .. Len(fields) :
            /\ fields[i].id = id
            /\ \A j \in 1 .. (i - 1) : fields[j].id # id
    ELSE 0

\* Vec::remove(pos) with pos 1-based
VecRemove(s, pos) == SubSeq(s, 1, pos - 1) \o SubSeq(s, pos + 1, Len(s))

\* Vec::insert(index, x) with index 0-based: x ends at 0-based index `index`
VecInsert(s, index, x) == SubSeq(s, 1, index) \o <<x>> \o SubSeq(s, index + 1, Len(s))

\* usize::min
Min(a, b) == IF a < b THEN a ELSE b

-----------------------------------------------------------------------------
(* Protocol *)

\* the loop of calculate_length from field i on, total_fixed_bits being `total`:
\* the ProtocolLength it assigns, or "Panic" when the u32 sum overflows under
\* overflow checks
RECURSIVE CalcWalk(_, _, _)
CalcWalk(fields, i, total) ==
    IF i > Len(fields) THEN PLFixed(total)
    ELSE IF fields[i].length.kind = "Variable" THEN PLVariable(total)
    ELSE LET sum == U32Add(total, fields[i].length.bits) IN
         IF sum.overflow /\ overflow_checks
         THEN [kind |-> "Panic", bits |-> total]
         ELSE CalcWalk(fields, i + 1, sum.value)

\* Protocol::calculate_length
calculate_length(p) ==
    LET l == CalcWalk(p.fields, 1, U32(0)) IN
    IF l.kind = "Panic" THEN Panic(p) ELSE Ok([p EXCEPT !.length = l])

\* add_field without its check for an id already present
add_field_no_duplicate_check(p, field_rule) ==
    IF Len(p.fields) > 0 /\ p.fields[Len(p.fields)].length.kind = "Variable"
    THEN Err("VariableFieldNotLast", p)
    ELSE calculate_length([p EXCEPT !.fields = Append(p.fields, field_rule)])

\* add_field that pushes the rule before it checks for an id already present
add_field_push_first(p, field_rule) ==
    IF AnyFieldId(p.fields, field_rule.id)
    THEN Err("DuplicateFieldId", [p EXCEPT !.fields = Append(p.fields, field_rule)])
    ELSE IF Len(p.fields) > 0 /\ p.fields[Len(p.fields)].length.kind = "Variable"
    THEN Err("VariableFieldNotLast", p)
    ELSE calculate_length([p EXCEPT !.fields = Append(p.fields, field_rule)])

\* add_field without its check for a Variable last field
add_field_no_variable_check(p, field_rule) ==
    IF AnyFieldId(p.fields, field_rule.id) THEN Err("DuplicateFieldId", p)
    ELSE calculate_length([p EXCEPT !.fields = Append(p.fields, field_rule)])

\* Protocol::add_field
add_field(p, field_rule) ==
    IF AnyFieldId(p.fields, field_rule.id) THEN Err("DuplicateFieldId", p)
    ELSE IF Len(p.fields) > 0 /\ p.fields[Len(p.fields)].length.kind = "Variable"
    THEN Err("VariableFieldNotLast", p)
    ELSE calculate_length([p EXCEPT !.fields = Append(p.fields, field_rule)])

\* Protocol::remove_field: retain runs before the check
remove_field(p, field_id) ==
    LET retained == SelectSeq(p.fields, LAMBDA f : f.id # field_id)
        q == [p EXCEPT !.fields = retained]
    IN  IF Len(retained) = Len(p.fields) THEN Err("FieldNotFound", q)
        ELSE calculate_length(q)

\* move_field that swaps the field with the one at the target index
move_field_swap(p, field_id, new_index) ==
    LET pos == Position(p.fields, field_id) IN
    IF pos # 0
    THEN LET target == Min(new_index, Len(p.fields) - 1) + 1
         IN  Ok([p EXCEPT !.fields = [p.fields EXCEPT ![pos] = p.fields[target],
                                                      ![target] = p.fields[pos]]])
    ELSE Err("FieldNotFound", p)

\* Protocol::move_field
move_field(p, field_id, new_index) ==
    LET pos == Position(p.fields, field_id) IN
    IF pos # 0
    THEN LET field == p.fields[pos]
             removed == VecRemove(p.fields, pos)
             clamped == Min(new_index, Len(removed))
         IN  Ok([p EXCEPT !.fields = VecInsert(removed, clamped, field)])
    ELSE Err("FieldNotFound", p)

\* update_field_id without its check for a field that has the new id
update_field_id_no_duplicate_check(p, old_id, new_id) ==
    IF old_id = new_id THEN Ok(p)
    ELSE LET pos == Position(p.fields, old_id) IN
         IF pos # 0 THEN Ok([p EXCEPT !.fields[pos].id = new_id])
         ELSE Err("FieldNotFound", p)

\* Protocol::update_field_id
update_field_id(p, old_id, new_id) ==
    IF old_id = new_id THEN Ok(p)
    ELSE IF AnyFieldId(p.fields, new_id) THEN Err("DuplicateFieldId", p)
    ELSE LET pos == Position(p.fields, old_id) IN
         IF pos # 0 THEN Ok([p EXCEPT !.fields[pos].id = new_id])
         ELSE Err("FieldNotFound", p)

\* Protocol::set_parent_constraint
set_parent_constraint(p, field_id, value) ==
    [p EXCEPT !.parent_constraints = MapInsert(p.parent_constraints, field_id, value)]

\* Protocol::update_metadata
update_metadata(p, key, value) ==
    [p EXCEPT !.metadata = MapInsert(p.metadata, key, value)]

\* the caller's closure of edit_field, FnOnce(&mut FieldRule) -> Result<(), String>:
\* what it assigns to each attribute of the rule (<<>>: nothing, <<v>>: v) and
\* the Result it returns
FieldMutator(id, name, field_type, length, description, result) ==
    [id |-> id, name |-> name, field_type |-> field_type, length |-> length,
     description |-> description, result |-> result]

\* an assignment of the closure: the value assigned, or the old one
Assigned(opt, old) == IF Len(opt) = 0 THEN old ELSE opt[1]

\* f(field): the rule as the closure leaves it, and the closure's Result
CallFieldMutator(f, field) ==
    [result |-> f.result,
     field |-> [id |-> Assigned(f.id, field.id),
                name |-> Assigned(f.name, field.name),
                field_type |-> Assigned(f.field_type, field.field_type),
                length |-> Assigned(f.length, field.length),
                description |-> Assigned(f.description, field.description)]]

\* edit_field that, when the closure changed the id, puts back the id alone
edit_field_restore_id_only(p, field_id, f) ==
    LET pos == Position(p.fields, field_id) IN
    IF pos # 0
    THEN LET backup == p.fields[pos]
             called == CallFieldMutator(f, backup)
             field == called.field
         IN  IF called.result = "Err"
             THEN Err("MutatorFailed", [p EXCEPT !.fields[pos] = backup])
             ELSE IF field.id # backup.id
             THEN Err("FieldIdImmutableHere",
                      [p EXCEPT !.fields[pos] = [field EXCEPT !.id = backup.id]])
             ELSE IF field.length # backup.length
             THEN calculate_length([p EXCEPT !.fields[pos] = field])
             ELSE Ok([p EXCEPT !.fields[pos] = field])
    ELSE Err("FieldNotFound", p)

\* Protocol::edit_field
edit_field(p, field_id, f) ==
    LET pos == Position(p.fields, field_id) IN
    IF pos # 0
    THEN LET backup == p.fields[pos]
             called == CallFieldMutator(f, backup)
             field == called.field
         IN  IF called.result = "Err"
             THEN Err("MutatorFailed", [p EXCEPT !.fields[pos] = backup])
             ELSE IF field.id # backup.id
             THEN Err("FieldIdImmutableHere", [p EXCEPT !.fields[pos] = backup])
             ELSE IF field.length # backup.length
             THEN calculate_length([p EXCEPT !.fields[pos] = field])
             ELSE Ok([p EXCEPT !.fields[pos] = field])
    ELSE Err("FieldNotFound", p)

-----------------------------------------------------------------------------
(* ProtocolRegistry *)

\* the Results of a registry method, with the map as the call leaves it
ROk(reg) == [res |-> "Ok", err |-> "", protocols |-> reg]
RErr(kind, reg) == [res |-> "Err", err |-> kind, protocols |-> reg]
RPanic(reg) == [res |-> "Panic", err |-> "attempt to add with overflow", protocols |-> reg]
RHang(reg) == [res |-> "Hang", err |-> "the loop never ends", protocols |-> reg]

\* HashMap::contains_key
contains_key(reg, id) == id \in DOMAIN reg

\* create_protocol that inserts the protocol before it checks that the parent
\* exists, and takes it out again when the parent does not
create_protocol_insert_first(reg, id, name, endianness, parent_id) ==
    IF contains_key(reg, id) THEN RErr("DuplicateProtocolId", reg)
    ELSE LET inserted == MapInsert(reg, id, Protocol_new(id, name, endianness, parent_id))
         IN  IF parent_id # None /\ ~contains_key(inserted, parent_id)
             THEN RErr("ParentNotFound", reg)
             ELSE ROk(inserted)

\* create_protocol without its check that the parent exists
create_protocol_no_parent_check(reg, id, name, endianness, parent_id) ==
    IF contains_key(reg, id) THEN RErr("DuplicateProtocolId", reg)
    ELSE ROk(MapInsert(reg, id, Protocol_new(id, name, endianness, parent_id)))

\* ProtocolRegistry::create_protocol
create_protocol(reg, id, name, endianness, parent_id) ==
    IF contains_key(reg, id) THEN RErr("DuplicateProtocolId", reg)
    ELSE IF parent_id # None /\ ~contains_key(reg, parent_id)
    THEN RErr("ParentNotFound", reg)
    ELSE ROk(MapInsert(reg, id, Protocol_new(id, name, endianness, parent_id)))

\* a set as a Vec, in the order the HashMap happens to iterate
RECURSIVE SetToSeq(_)
SetToSeq(S) ==
    IF S = {} THEN <<>>
    ELSE LET x == CHOOSE y \in S : TRUE IN <<x>> \o SetToSeq(S \ {x})

\* the ids of the protocols whose parent_id is Some(current_id)
Children(reg, current_id) ==
    {reg[k].id : k \in {j \in DOMAIN reg : reg[j].parent_id = current_id}}

\* the while loop of remove_protocol from index i (1-based) on: to_remove when the
\* loop ends, or <<>> when it cannot end (to_remove has outgrown the map, so an
\* id is in it twice and its children are appended again without end)
RECURSIVE CollectToRemove(_, _, _)
CollectToRemove(reg, to_remove, i) ==
    IF i > Len(to_remove) THEN to_remove
    ELSE IF Len(to_remove) > Cardinality(DOMAIN reg) THEN <<>>
    ELSE CollectToRemove(reg, to_remove \o SetToSeq(Children(reg, to_remove[i])), i + 1)

\* remove_protocol that removes the addressed protocol alone
remove_protocol_no_cascade(reg, protocol_id) ==
    IF ~contains_key(reg, protocol_id) THEN RErr("ProtocolNotFound", reg)
    ELSE ROk(MapRemove(reg, protocol_id))

\* remove_protocol that collects the direct children only
remove_protocol_children_only(reg, protocol_id) ==
    IF ~contains_key(reg, protocol_id) THEN RErr("ProtocolNotFound", reg)
    ELSE ROk([k \in (DOMAIN reg) \ ({protocol_id} \cup Children(reg, protocol_id)) |->
                reg[k]])

\* ProtocolRegistry::remove_protocol
remove_protocol(reg, protocol_id) ==
    IF ~contains_key(reg, protocol_id) THEN RErr("ProtocolNotFound", reg)
    ELSE LET to_remove == CollectToRemove(reg, <<protocol_id>>, 1)
             ids == {to_remove[i] : i \in 1 .. Len(to_remove)}
         IN  IF to_remove = <<>> THEN RHang(reg)
             ELSE ROk([k \in (DOMAIN reg) \ ids |-> reg[k]])

\* update_protocol_id without the loop over the child protocols
update_protocol_id_keep_parent_ids(reg, old_id, new_id) ==
    IF old_id = new_id THEN ROk(reg)
    ELSE IF contains_key(reg, new_id) THEN RErr("DuplicateProtocolId", reg)
    ELSE IF contains_key(reg, old_id)
    THEN ROk(MapInsert(MapRemove(reg, old_id), new_id, [reg[old_id] EXCEPT !.id = new_id]))
    ELSE RErr("ProtocolNotFound", reg)

\* update_protocol_id that clears the parent_id of the child protocols
update_protocol_id_orphans_children(reg, old_id, new_id) ==
    IF old_id = new_id THEN ROk(reg)
    ELSE IF contains_key(reg, new_id) THEN RErr("DuplicateProtocolId", reg)
    ELSE IF contains_key(reg, old_id)
    THEN LET renamed == [reg[old_id] EXCEPT !.id = new_id]
             rekeyed == MapInsert(MapRemove(reg, old_id), new_id, renamed)
         IN  ROk([k \in DOMAIN rekeyed |->
                    IF rekeyed[k].parent_id = old_id
                    THEN [rekeyed[k] EXCEPT !.parent_id = None]
                    ELSE rekeyed[k]])
    ELSE RErr("ProtocolNotFound", reg)

\* update_protocol_id that moves the protocol to its new key without assigning
\* proto.id
update_protocol_id_keep_id(reg, old_id, new_id) ==
    IF old_id = new_id THEN ROk(reg)
    ELSE IF contains_key(reg, new_id) THEN RErr("DuplicateProtocolId", reg)
    ELSE IF contains_key(reg, old_id)
    THEN LET rekeyed == MapInsert(MapRemove(reg, old_id), new_id, reg[old_id])
         IN  ROk([k \in DOMAIN rekeyed |->
                    IF rekeyed[k].parent_id = old_id
                    THEN [rekeyed[k] EXCEPT !.parent_id = new_id]
                    ELSE rekeyed[k]])
    ELSE RErr("ProtocolNotFound", reg)

\* ProtocolRegistry::update_protocol_id
update_protocol_id(reg, old_id, new_id) ==
    IF old_id = new_id THEN ROk(reg)
    ELSE IF contains_key(reg, new_id) THEN RErr("DuplicateProtocolId", reg)
    ELSE IF contains_key(reg, old_id)
    THEN LET renamed == [reg[old_id] EXCEPT !.id = new_id]
             rekeyed == MapInsert(MapRemove(reg, old_id), new_id, renamed)
         IN  ROk([k \in DOMAIN rekeyed |->
                    IF rekeyed[k].parent_id = old_id
                    THEN [rekeyed[k] EXCEPT !.parent_id = new_id]
                    ELSE rekeyed[k]])
    ELSE RErr("ProtocolNotFound", reg)

\* ProtocolRegistry::get_protocol: an Option, <<>> for None and <<p>> for Some(p)
get_protocol(reg, protocol_id) ==
    IF contains_key(reg, protocol_id) THEN <<reg[protocol_id]>> ELSE <<>>

\* the caller's closure of edit_protocol, FnOnce(&mut Protocol) -> Result<(), String>:
\* what it assigns to the protocol (<<>>: nothing, <<v>>: v; for the two maps the
\* <<key, value>> it inserts), the Protocol method it then calls with `?`
\* (<<>>: none), and the Result it returns when that call did not fail
ProtocolMutator(id, parent_id, name, endianness, description, metadata, parent_constraint, call, result) ==
    [id |-> id, parent_id |-> parent_id, name |-> name, endianness |-> endianness,
     description |-> description, metadata |-> metadata,
     parent_constraint |-> parent_constraint, call |-> call, result |-> result]

\* the Protocol method a closure calls, or its own p.fields.push(rule) (fields
\* is a pub member of Protocol)
CallMethod(call, p) ==
    CASE call.method = "add_field" -> add_field(p, call.rule)
      [] call.method = "remove_field" -> remove_field(p, call.id)
      [] call.method = "move_field" -> move_field(p, call.id, call.new_index)
      [] call.method = "update_field_id" -> update_field_id(p, call.old_id, call.new_id)
      [] call.method = "fields.push" -> Ok([p EXCEPT !.fields = Append(@, call.rule)])

\* the assignments of a closure
AssignProtocol(f, p) ==
    LET a == [p EXCEPT !.id = Assigned(f.id, p.id),
                       !.parent_id = Assigned(f.parent_id, p.parent_id),
                       !.name = Assigned(f.name, p.name),
                       !.endianness = Assigned(f.endianness, p.endianness),
                       !.description = Assigned(f.description, p.description)]
        b == IF Len(f.metadata) = 0 THEN a
             ELSE update_metadata(a, f.metadata[1], f.metadata[2])
    IN  IF Len(f.parent_constraint) = 0 THEN b
        ELSE set_parent_constraint(b, f.parent_constraint[1], f.parent_constraint[2])

\* f(proto): the protocol as the closure leaves it, and the closure's Result
CallProtocolMutator(f, p) ==
    LET assigned == AssignProtocol(f, p) IN
    IF Len(f.call) = 0 THEN [result |-> f.result, proto |-> assigned]
    ELSE LET r == CallMethod(f.call[1], assigned) IN
         [result |-> IF r.res = "Ok" THEN f.result ELSE r.res, proto |-> r.p]

\* edit_protocol that, when the closure changed parent_id, puts back parent_id alone
edit_protocol_restore_parent_id_only(reg, protocol_id, f) ==
    IF contains_key(reg, protocol_id)
    THEN LET backup == reg[protocol_id]
             called == CallProtocolMutator(f, backup)
             p == called.proto
         IN  IF called.result = "Panic"
             THEN RPanic([reg EXCEPT ![protocol_id] = p])
             ELSE IF called.result = "Err"
             THEN RErr("MutatorFailed", [reg EXCEPT ![protocol_id] = backup])
             ELSE IF p.id # backup.id
             THEN RErr("ProtocolIdImmutableHere", [reg EXCEPT ![protocol_id] = backup])
             ELSE IF p.parent_id # backup.parent_id
             THEN RErr("ParentImmutable",
                       [reg EXCEPT ![protocol_id] =
                            [p EXCEPT !.parent_id = backup.parent_id]])
             ELSE ROk([reg EXCEPT ![protocol_id] = p])
    ELSE RErr("ProtocolNotFound", reg)

\* edit_protocol without its check that parent_id is what it was
edit_protocol_no_parent_check(reg, protocol_id, f) ==
    IF contains_key(reg, protocol_id)
    THEN LET backup == reg[protocol_id]
             called == CallProtocolMutator(f, backup)
             p == called.proto
         IN  IF called.result = "Panic"
             THEN RPanic([reg EXCEPT ![protocol_id] = p])
             ELSE IF called.result = "Err"
             THEN RErr("MutatorFailed", [reg EXCEPT ![protocol_id] = backup])
             ELSE IF p.id # backup.id
             THEN RErr("ProtocolIdImmutableHere", [reg EXCEPT ![protocol_id] = backup])
             ELSE ROk([reg EXCEPT ![protocol_id] = p])
    ELSE RErr("ProtocolNotFound", reg)

\* ProtocolRegistry::edit_protocol
edit_protocol(reg, protocol_id, f) ==
    IF contains_key(reg, protocol_id)
    THEN LET backup == reg[protocol_id]
             called == CallProtocolMutator(f, backup)
             p == called.proto
         IN  IF called.result = "Panic"
             THEN RPanic([reg EXCEPT ![protocol_id] = p])
             ELSE IF called.result = "Err"
             THEN RErr("MutatorFailed", [reg EXCEPT ![protocol_id] = backup])
             ELSE IF p.id # backup.id
             THEN RErr("ProtocolIdImmutableHere", [reg EXCEPT ![protocol_id] = backup])
             ELSE IF p.parent_id # backup.parent_id
             THEN RErr("ParentImmutable", [reg EXCEPT ![protocol_id] = backup])
             ELSE ROk([reg EXCEPT ![protocol_id] = p])
    ELSE RErr("ProtocolNotFound", reg)

\* Vec::reverse
Reverse(s) == [i \in 1 .. Len(s) |-> s[Len(s) + 1 - i]]

\* the while loop of get_inheritance_chain, current_id being an Option and chain
\* what was pushed so far (leaf first): the chain when the loop ends, or hang
\* when it cannot end (more protocols were pushed than the map holds, so one was
\* pushed twice and the walk repeats without end)
RECURSIVE ChainWalk(_, _, _)
ChainWalk(reg, current_id, chain) ==
    IF current_id = None THEN [hang |-> FALSE, chain |-> chain]
    ELSE IF ~contains_key(reg, current_id) THEN [hang |-> FALSE, chain |-> chain]
    ELSE IF Len(chain) >= Cardinality(DOMAIN reg) THEN [hang |-> TRUE, chain |-> <<>>]
    ELSE ChainWalk(reg, reg[current_id].parent_id, Append(chain, reg[current_id]))

\* get_inheritance_chain that returns the chain in the order of the walk
get_inheritance_chain_not_reversed(reg, protocol_id) ==
    LET walk == ChainWalk(reg, protocol_id, <<>>) IN
    IF walk.hang THEN [res |-> "Hang", chain |-> <<>>]
    ELSE [res |-> "Ok", chain |-> walk.chain]

\* ProtocolRegistry::get_inheritance_chain: the Vec it returns, root first
get_inheritance_chain(reg, protocol_id) ==
    LET walk == ChainWalk(reg, protocol_id, <<>>) IN
    IF walk.hang THEN [res |-> "Hang", chain |-> <<>>]
    ELSE [res |-> "Ok", chain |-> Reverse(walk.chain)]

\* the for loop of get_total_length from protocol i of the chain on,
\* total_fixed_bits being `total`: the ProtocolLength returned, or "Panic" when
\* a u32 sum overflows under overflow checks
RECURSIVE TotalWalk(_, _, _)
TotalWalk(chain, i, total) ==
    IF i > Len(chain) THEN PLFixed(total)
    ELSE LET sum == U32Add(total, chain[i].length.bits) IN
         IF sum.overflow /\ overflow_checks
         THEN [kind |-> "Panic", bits |-> total]
         ELSE IF chain[i].length.kind = "Variable" THEN PLVariable(sum.value)
         ELSE TotalWalk(chain, i + 1, sum.value)

\* get_total_length that goes on past a protocol of Variable length
get_total_length_past_variable(reg, protocol_id) ==
    LET c == get_inheritance_chain(reg, protocol_id)
        vars_at == {i \in 1 .. Len(c.chain) : c.chain[i].length.kind = "Variable"}
        l == TotalWalk([i \in 1 .. Len(c.chain) |->
                           [length |-> PLFixed(c.chain[i].length.bits)]], 1, U32(0))
    IN  IF c.res = "Hang" THEN [res |-> "Hang", value |-> PLFixed(U32(0))]
        ELSE IF l.kind = "Panic" THEN [res |-> "Panic", value |-> PLFixed(U32(0))]
        ELSE [res |-> "Ok",
              value |-> IF vars_at = {} THEN l ELSE PLVariable(l.bits)]

\* ProtocolRegistry::get_total_length: the ProtocolLength it returns
get_total_length(reg, protocol_id) ==
    LET c == get_inheritance_chain(reg, protocol_id)
        l == TotalWalk(c.chain, 1, U32(0))
    IN  IF c.res = "Hang" THEN [res |-> "Hang", value |-> PLFixed(U32(0))]
        ELSE IF l.kind = "Panic" THEN [res |-> "Panic", value |-> PLFixed(U32(0))]
        ELSE [res |-> "Ok", value |-> l]

\* the for loop of resolve_fields: the fields of the protocols of the chain from
\* protocol i on, appended to resolved_fields
RECURSIVE ExtendFields(_, _, _)
ExtendFields(chain, i, resolved_fields) ==
    IF i > Len(chain) THEN resolved_fields
    ELSE ExtendFields(chain, i + 1, resolved_fields \o chain[i].fields)

\* resolve_fields that takes the fields of the addressed protocol alone
resolve_fields_own_only(reg, protocol_id) ==
    IF contains_key(reg, protocol_id)
    THEN [res |-> "Ok", err |-> "", fields |-> reg[protocol_id].fields]
    ELSE [res |-> "Err", err |-> "ProtocolNotFound", fields |-> <<>>]

\* ProtocolRegistry::resolve_fields: its Result, with the Vec of an Ok
resolve_fields(reg, protocol_id) ==
    LET c == get_inheritance_chain(reg, protocol_id) IN
    IF c.res = "Hang" THEN [res |-> "Hang", err |-> "the loop never ends", fields |-> <<>>]
    ELSE IF Len(c.chain) = 0
    THEN [res |-> "Err", err |-> "ProtocolNotFound", fields |-> <<>>]
    ELSE [res |-> "Ok", err |-> "", fields |-> ExtendFields(c.chain, 1, <<>>)]

-----------------------------------------------------------------------------
(* Packet *)

\* Field::new(rule_id, value, ignore_rules)
Field_new(rule_id, value, ignore_rules) ==
    [rule_id |-> rule_id, value |-> value, ignore_rules |-> ignore_rules]

\* Field::set_value: the value buffer is replaced
Field_set_value(field, value) == [field EXCEPT !.value = value]

\* Packet::new: field_rules.into_iter().map(|rule| Field::new(&rule.id, vec![], false))
Packet_new(protocol_id, field_rules) ==
    [protocol_id |-> protocol_id,
     field_values |-> [i \in 1 .. Len(field_rules) |->
                          Field_new(field_rules[i].id, <<>>, FALSE)]]

\* the Results of Packet methods, with the packet as the call leaves it
KOk(pkt) == [res |-> "Ok", err |-> "", packet |-> pkt]
KErr(kind, pkt) == [res |-> "Err", err |-> kind, packet |-> pkt]

\* set_field_value that pushes a Field for an index out of range
set_field_value_push_when_missing(pkt, index, value) ==
    IF index < Len(pkt.field_values)
    THEN KOk([pkt EXCEPT !.field_values[index + 1] = Field_set_value(@, value)])
    ELSE KOk([pkt EXCEPT !.field_values = Append(@, Field_new("", value, FALSE))])

\* Packet::set_field_value: field_values.get_mut(index) is Some when index < len
set_field_value(pkt, index, value) ==
    IF index < Len(pkt.field_values)
    THEN KOk([pkt EXCEPT !.field_values[index + 1] = Field_set_value(@, value)])
    ELSE KErr("IndexNotFound", pkt)

\* is_complete with any in the place of all
is_complete_any(pkt) ==
    \E i \in 1 .. Len(pkt.field_values) : Len(pkt.field_values[i].value) # 0

\* Packet::is_complete: field_values.iter().all(|f| !f.value.is_empty())
is_complete(pkt) ==
    \A i \in 1 .. Len(pkt.field_values) : Len(pkt.field_values[i].value) # 0

-----------------------------------------------------------------------------
(* The caller of a Protocol: the inputs it draws *)

\* FieldType::Fixed(0) and FieldType::Input
TypeFixed0 == [kind |-> "Fixed", value |-> 0]
TypeInput == [kind |-> "Input"]

\* the lengths a caller gives a field
FieldLengths == {FixedLen(U32(b)) : b \in FieldBits} \cup {VariableLen}

\* the rules a caller passes to add_field, built by FieldRule::new
NewRules ==
    {FieldRule_new(id, TypeFixed0, l) : id \in FieldIds, l \in FieldLengths}

\* what a closure may assign to the id of a rule: nothing, or "f1" (the id the
\* rule has, the id of another field, or an id no field has)
IdAssignments == {<<>>, <<"f1">>}

\* what a closure may assign to the length of a rule
LengthAssignments == {<<>>} \cup {<<l>> : l \in FieldLengths}

\* the closures a caller passes to edit_field: each assigns an id or none and a
\* length or none and returns Ok or Err; those that return Err may also have
\* assigned name, field_type and description, and so may one that assigns an id
\* no field has
FieldMutators ==
    {FieldMutator(id, <<>>, <<>>, l, <<>>, r) :
        id \in IdAssignments, l \in LengthAssignments, r \in {"Ok", "Err"}}
    \cup
    {FieldMutator(id, <<"n">>, <<TypeInput>>, l, <<"d">>, "Err") :
        id \in IdAssignments, l \in LengthAssignments}
    \cup
    {FieldMutator(<<"new_field_id">>, <<"n">>, <<TypeInput>>, l, <<"d">>, "Ok") :
        l \in LengthAssignments}

\* the last call: the method and its Result
Call(op, r) == [op |-> op, res |-> r.res, err |-> r.err]

\* no call has panicked: a panic ends the program
Running == last.res # "Panic" /\ rlast.res # "Panic"

-----------------------------------------------------------------------------
(* The state after construction *)

\* ProtocolRegistry::new, a Protocol built by Protocol::new, and a Packet built
\* by Packet::new from no rules
Init ==
    /\ proto = Protocol_new("p", None, "Big", None)
    /\ last = [op |-> "new", res |-> "Ok", err |-> ""]
    /\ protocols = EmptyMap
    /\ rlast = [op |-> "new", res |-> "Ok", err |-> ""]
    /\ overflow_checks \in BOOLEAN
    /\ packet = Packet_new("p", <<>>)
    /\ plast = [op |-> "new", res |-> "Ok", err |-> "", built_from |-> <<>>]

registryVars == <<protocols, rlast>>

packetVars == <<packet, plast>>

-----------------------------------------------------------------------------
(* The calls on a Protocol *)

\* a call of a Protocol method that returned r
ProtocolCall(op, r) ==
    /\ proto' = r.p
    /\ last' = Call(op, r)
    /\ UNCHANGED <<registryVars, overflow_checks, packetVars>>

AddField ==
    \E rule \in NewRules :
        /\ Running
        /\ Len(proto.fields) < MaxFields
        /\ ProtocolCall("add_field", add_field(proto, rule))

RemoveField ==
    \E id \in FieldIds :
        /\ Running
        /\ ProtocolCall("remove_field", remove_field(proto, id))

MoveField ==
    \E id \in FieldIds, new_index \in MoveIndices :
        /\ Running
        /\ ProtocolCall("move_field", move_field(proto, id, new_index))

UpdateFieldId ==
    \E old_id \in FieldIds, new_id \in FieldIds :
        /\ Running
        /\ ProtocolCall("update_field_id", update_field_id(proto, old_id, new_id))

EditField ==
    \E id \in FieldIds, f \in FieldMutators :
        /\ Running
        /\ ProtocolCall("edit_field", edit_field(proto, id, f))

SetParentConstraint ==
    /\ Running
    /\ ProtocolCall("set_parent_constraint", Ok(set_parent_constraint(proto, "f1", 1)))

Next ==
    \/ AddField
    \/ RemoveField
    \/ MoveField
    \/ UpdateFieldId
    \/ EditField
    \/ SetParentConstraint

Spec == Init /\ [][Next]_vars

-----------------------------------------------------------------------------
(* The caller of a ProtocolRegistry: the inputs it draws *)

\* the parent_id a caller passes to create_protocol
ParentIds == {None} \cup ProtocolIds

\* the rule a closure of edit_protocol adds to a protocol
RegistryRule == FieldRule_new("f1", TypeFixed0, FixedLen(U32(8)))

\* add_field of that rule
AddF1 == [method |-> "add_field", rule |-> RegistryRule]

\* the Protocol methods a closure of edit_protocol calls
MethodCalls == {AddF1, [method |-> "remove_field", id |-> "f1"]}

\* the closures a caller passes to edit_protocol: those that only call a Protocol
\* method; those that assign every attribute but id and parent_id and fail (on
\* their own, or in the method they call); those that assign an id or a
\* parent_id of the registry, call add_field and return Ok; and those that assign
\* an id or a parent_id no protocol has, with every other attribute, and return Ok
ProtocolMutators ==
    {ProtocolMutator(<<>>, <<>>, <<>>, <<>>, <<>>, <<>>, <<>>, <<call>>, "Ok") :
        call \in MethodCalls}
    \cup
    {ProtocolMutator(<<>>, <<>>, <<"n">>, <<"Little">>, <<"d">>, <<"k", "v">>,
                     <<"f1", 1>>, call, "Err") :
        call \in {<<>>} \cup {<<c>> : c \in MethodCalls}}
    \cup
    {ProtocolMutator(<<id>>, <<>>, <<>>, <<>>, <<>>, <<>>, <<>>, <<AddF1>>, "Ok") :
        id \in {"p1", "p2"}}
    \cup
    {ProtocolMutator(<<>>, <<parent_id>>, <<>>, <<>>, <<>>, <<>>, <<>>, <<AddF1>>, "Ok") :
        parent_id \in {None, "p1"}}
    \cup
    {ProtocolMutator(<<"renamed">>, <<>>, <<"n">>, <<"Little">>, <<"d">>, <<"k", "v">>,
                     <<"f1", 1>>, <<>>, "Ok"),
     ProtocolMutator(<<>>, <<"adopted">>, <<"n">>, <<"Little">>, <<"d">>, <<"k", "v">>,
                     <<"f1", 1>>, <<>>, "Ok")}

-----------------------------------------------------------------------------
(* The calls on a ProtocolRegistry *)

\* a call of a registry method that returned r
RegistryCall(op, r) ==
    /\ protocols' = r.protocols
    /\ rlast' = [op |-> op, res |-> r.res, err |-> r.err]
    /\ UNCHANGED <<proto, last, overflow_checks, packetVars>>

CreateProtocol ==
    \E id \in ProtocolIds, parent_id \in ParentIds :
        /\ Running
        /\ Cardinality(DOMAIN protocols) < MaxProtocols
        /\ RegistryCall("create_protocol",
                        create_protocol(protocols, id, None, "Big", parent_id))

RemoveProtocol ==
    \E id \in ProtocolIds :
        /\ Running
        /\ RegistryCall("remove_protocol", remove_protocol(protocols, id))

UpdateProtocolId ==
    \E old_id \in ProtocolIds, new_id \in ProtocolIds :
        /\ Running
        /\ RegistryCall("update_protocol_id", update_protocol_id(protocols, old_id, new_id))

EditProtocol ==
    \E id \in ProtocolIds, f \in ProtocolMutators :
        /\ Running
        /\ RegistryCall("edit_protocol", edit_protocol(protocols, id, f))

\* a call of a registry method that takes &self, was passed id and returned value
RegistryQuery(op, id, res, value) ==
    /\ rlast' = [op |-> op, res |-> res, err |-> "", id |-> id, value |-> value]
    /\ UNCHANGED <<protocols, proto, last, overflow_checks, packetVars>>

GetInheritanceChain ==
    \E id \in ProtocolIds :
        /\ Running
        /\ LET c == get_inheritance_chain(protocols, id)
           IN  RegistryQuery("get_inheritance_chain", id, c.res, c.chain)

GetTotalLength ==
    \E id \in ProtocolIds :
        /\ Running
        /\ LET t == get_total_length(protocols, id)
           IN  RegistryQuery("get_total_length", id, t.res, t.value)

ResolveFields ==
    \E id \in ProtocolIds :
        /\ Running
        /\ LET r == resolve_fields(protocols, id)
           IN  RegistryQuery("resolve_fields", id, r.res, r.fields)

NextRegistry ==
    \/ CreateProtocol
    \/ RemoveProtocol
    \/ UpdateProtocolId
    \/ EditProtocol
    \/ GetInheritanceChain

SpecRegistry == Init /\ [][NextRegistry]_vars

-----------------------------------------------------------------------------
(* A registry whose protocols hold fields of Fixed and of Variable length *)

\* the protocol ids of this caller
LayoutIds == {"p1", "p2", "p3"}

\* the rule of Variable length a closure adds
VariableRule == FieldRule_new("f2", TypeFixed0, VariableLen)

\* the Protocol methods the closures of this caller call: a Fixed field and a
\* Variable field added and removed, and the Variable field moved to the front
LayoutCalls ==
    {AddF1,
     [method |-> "add_field", rule |-> VariableRule],
     [method |-> "remove_field", id |-> "f1"],
     [method |-> "remove_field", id |-> "f2"],
     [method |-> "move_field", id |-> "f2", new_index |-> 0]}

\* a closure that calls one Protocol method and returns its Result
CallOnly(call) ==
    ProtocolMutator(<<>>, <<>>, <<>>, <<>>, <<>>, <<>>, <<>>, <<call>>, "Ok")

CreateLayoutProtocol ==
    \E id \in LayoutIds, parent_id \in {None} \cup LayoutIds :
        /\ Running
        /\ RegistryCall("create_protocol",
                        create_protocol(protocols, id, None, "Big", parent_id))

EditLayout ==
    \E id \in LayoutIds, call \in LayoutCalls :
        /\ Running
        /\ RegistryCall("edit_protocol", edit_protocol(protocols, id, CallOnly(call)))

RenameLayoutProtocol ==
    \E old_id \in LayoutIds, new_id \in LayoutIds :
        /\ Running
        /\ RegistryCall("update_protocol_id", update_protocol_id(protocols, old_id, new_id))

NextLayout ==
    \/ CreateLayoutProtocol
    \/ EditLayout
    \/ RenameLayoutProtocol
    \/ GetTotalLength
    \/ ResolveFields

SpecLayout == Init /\ [][NextLayout]_vars

-----------------------------------------------------------------------------
(* A registry whose protocols hold fields as wide as a u32 allows *)

\* the protocol ids of this caller
WideIds == {"p1", "p2"}

\* 2^31 as a u32
U32Half == [hi |-> 2 ^ 15, lo |-> 0]

\* the rules a closure of this caller adds: Fixed fields of 2^31, of u32::MAX
\* and of 8 bits
WideRules ==
    {FieldRule_new("f1", TypeFixed0, FixedLen(U32Half)),
     FieldRule_new("f2", TypeFixed0, FixedLen(U32Max)),
     FieldRule_new("f2", TypeFixed0, FixedLen(U32(8)))}

\* the Protocol methods the closures of this caller call
WideCalls ==
    {[method |-> "add_field", rule |-> rule] : rule \in WideRules}
    \cup {[method |-> "remove_field", id |-> "f1"]}

CreateWideProtocol ==
    \E id \in WideIds, parent_id \in {None} \cup WideIds :
        /\ Running
        /\ RegistryCall("create_protocol",
                        create_protocol(protocols, id, None, "Big", parent_id))

EditWide ==
    \E id \in WideIds, call \in WideCalls :
        /\ Running
        /\ RegistryCall("edit_protocol", edit_protocol(protocols, id, CallOnly(call)))

NextWide ==
    \/ CreateWideProtocol
    \/ EditWide
    \/ GetTotalLength

SpecWide == Init /\ [][NextWide]_vars

-----------------------------------------------------------------------------
(* The caller of a Packet *)

\* the rules a caller builds a Packet from: the fields resolve_fields returns,
\* where an id may occur more than once
PacketRules ==
    {RegistryRule, VariableRule, FieldRule_new("f3", TypeInput, FixedLen(U32(4)))}

\* the Vecs of at most MaxFields rules
PacketRuleSeqs == UNION {[1 .. n -> PacketRules] : n \in 0 .. MaxFields}

\* the indices a caller passes to set_field_value
PacketIndices == 0 .. MaxFields

\* the byte sequences a caller passes to set_field_value
ByteSeqs == {<<>>, <<0>>, <<255, 1>>}

\* a call of a Packet method that returned r
PacketCall(op, r) ==
    /\ packet' = r.packet
    /\ plast' = [op |-> op, res |-> r.res, err |-> r.err, built_from |-> plast.built_from]
    /\ UNCHANGED <<proto, last, registryVars, overflow_checks>>

NewPacket ==
    \E field_rules \in PacketRuleSeqs :
        /\ Running
        /\ packet' = Packet_new("p", field_rules)
        /\ plast' = [op |-> "new", res |-> "Ok", err |-> "", built_from |-> field_rules]
        /\ UNCHANGED <<proto, last, registryVars, overflow_checks>>

SetFieldValue ==
    \E index \in PacketIndices, value \in ByteSeqs :
        /\ Running
        /\ PacketCall("set_field_value", set_field_value(packet, index, value))

IsComplete ==
    /\ Running
    /\ plast' = [op |-> "is_complete", res |-> "Ok", err |-> "",
                 built_from |-> plast.built_from, value |-> is_complete(packet)]
    /\ UNCHANGED <<packet, proto, last, registryVars, overflow_checks>>

NextPacket ==
    \/ NewPacket
    \/ SetFieldValue
    \/ IsComplete

SpecPacket == Init /\ [][NextPacket]_vars

-----------------------------------------------------------------------------
(* Properties of a Protocol, checked under Spec *)

\* the number a u32 of the model's widths stands for
U32Nat(v) == v.hi * U32Limb + v.lo

\* the indices of the fields of Variable length
VariableIndices(fields) ==
    {i \in 1 .. Len(fields) : fields[i].length.kind = "Variable"}

\* no field but the last has Variable length
SingleTrailingVariable(fields) == VariableIndices(fields) \subseteq {Len(fields)}

\* no two fields have the same id
UniqueFieldIds(fields) ==
    \A i, j \in 1 .. Len(fields) : i # j => fields[i].id # fields[j].id

\* the sum of the bit widths of the Fixed fields among the first n
RECURSIVE SumFixedBits(_, _)
SumFixedBits(fields, n) ==
    IF n = 0 THEN 0
    ELSE SumFixedBits(fields, n - 1)
         + (IF fields[n].length.kind = "Fixed" THEN U32Nat(fields[n].length.bits) ELSE 0)

\* the length a field sequence stands for: Variable(the bits before the first
\* Variable field) when there is one, Fixed(all the bits) otherwise
DerivedLength(fields) ==
    IF VariableIndices(fields) # {}
    THEN LET first == CHOOSE i \in VariableIndices(fields) :
                         \A j \in VariableIndices(fields) : i <= j
         IN  PLVariable(U32(SumFixedBits(fields, first - 1)))
    ELSE PLFixed(U32(SumFixedBits(fields, Len(fields))))

\* C1: in every reachable state of a Protocol at most one field has Variable
\* length, and it is the last field.
C1_VariableFieldIsLast == SingleTrailingVariable(proto.fields)

\* C2: after every successful mutation, Protocol.length is the length the field
\* sequence stands for.
C2_LengthIsDerived ==
    last.res = "Ok" => proto.length = DerivedLength(proto.fields)

\* C3: in every reachable state of a Protocol, after successful and failing
\* calls alike, no two fields have the same id.
C3_FieldIdsUnique == UniqueFieldIds(proto.fields)

\* C3 witness: three fields, and the last call was refused for an id already there
C3_Witness ==
    /\ Len(proto.fields) = 3
    /\ last.err = "DuplicateFieldId"

\* what every call of a mutating Protocol method the model makes returns in the
\* current state
ProtocolCalls ==
    {add_field(proto, rule) : rule \in NewRules}
    \cup {remove_field(proto, id) : id \in FieldIds}
    \cup {move_field(proto, id, i) : id \in FieldIds, i \in MoveIndices}
    \cup {update_field_id(proto, o, n) : o \in FieldIds, n \in FieldIds}
    \cup {edit_field(proto, id, f) : id \in FieldIds, f \in FieldMutators}

\* C4: a mutating call that returns an error leaves the protocol as it was, and
\* after one that returns success the invariants hold (unique ids, a single
\* trailing Variable field, the derived length).
C4_MutationsAtomic ==
    /\ \A r \in ProtocolCalls : r.res = "Err" => r.p = proto
    /\ last.res = "Ok" =>
          /\ UniqueFieldIds(proto.fields)
          /\ SingleTrailingVariable(proto.fields)
          /\ proto.length = DerivedLength(proto.fields)

\* C5: add_field of a rule whose id a field already has returns an error and
\* leaves the field sequence and the length as they were.
C5_AddDuplicateRefused ==
    \A rule \in NewRules :
        AnyFieldId(proto.fields, rule.id) =>
            LET r == add_field(proto, rule) IN
            /\ r.res = "Err"
            /\ r.p.fields = proto.fields
            /\ r.p.length = proto.length

\* C5 witness: add_field was refused for its id, the protocol holding fields
C5_Witness ==
    /\ last.op = "add_field"
    /\ last.err = "DuplicateFieldId"
    /\ Len(proto.fields) >= 2

\* the last field has Variable length
LastIsVariable(fields) ==
    Len(fields) > 0 /\ fields[Len(fields)].length.kind = "Variable"

C7_EditFieldRollsBack ==
    \A id \in FieldIds, f \in FieldMutators :
        LET pos == Position(proto.fields, id) IN
        pos # 0 =>
            LET called == CallFieldMutator(f, proto.fields[pos])
                r == edit_field(proto, id, f)
            IN  (called.result = "Err" \/ called.field.id # proto.fields[pos].id) =>
                    /\ r.res = "Err"
                    /\ r.p.fields = proto.fields
                    /\ r.p.length = proto.length

\* C7 witness: edit_field refused a closure that changed the id
C7_Witness ==
    /\ last.op = "edit_field"
    /\ last.err = "FieldIdImmutableHere"
    /\ Len(proto.fields) >= 2

-----------------------------------------------------------------------------
(* Properties of a ProtocolRegistry, checked under SpecRegistry *)

\* C8: when the closure of edit_protocol returns failure, or changed the id or
\* the parent_id, edit_protocol returns an error and the addressed protocol and
\* every other protocol of the registry are what they were.
C8_EditProtocolRollsBack ==
    \A id \in DOMAIN protocols, f \in ProtocolMutators :
        LET called == CallProtocolMutator(f, protocols[id])
            r == edit_protocol(protocols, id, f)
        IN  (\/ called.result = "Err"
             \/ called.proto.id # protocols[id].id
             \/ called.proto.parent_id # protocols[id].parent_id) =>
                /\ r.res = "Err"
                /\ r.protocols = protocols

\* C8 witness: edit_protocol refused a closure that changed parent_id, in a
\* registry of several protocols, one of them with fields
C8_Witness ==
    /\ rlast.op = "edit_protocol"
    /\ rlast.err = "ParentImmutable"
    /\ Cardinality(DOMAIN protocols) >= 2
    /\ \E k \in DOMAIN protocols : protocols[k].fields # <<>>

\* following parent_id from protocol k, in at most n steps, leads to id
RECURSIVE HasAncestor(_, _, _, _)
HasAncestor(reg, k, id, n) ==
    /\ n > 0
    /\ k \in DOMAIN reg
    /\ reg[k].parent_id # None
    /\ \/ reg[k].parent_id = id
       \/ HasAncestor(reg, reg[k].parent_id, id, n - 1)

\* id and every protocol whose parent_id chain reaches id
Subtree(reg, id) ==
    {id} \cup {k \in DOMAIN reg : HasAncestor(reg, k, id, Cardinality(DOMAIN reg))}

\* C9: remove_protocol of an id of the registry removes exactly id and the
\* protocols whose parent_id chain reaches id, and leaves every other protocol
\* as it was; of an id not in the registry it returns an error and removes
\* nothing.
C9_RemoveProtocolCascades ==
    \A id \in ProtocolIds :
        LET r == remove_protocol(protocols, id) IN
        IF id \in DOMAIN protocols
        THEN /\ r.res = "Ok"
             /\ DOMAIN r.protocols = (DOMAIN protocols) \ Subtree(protocols, id)
             /\ \A k \in DOMAIN r.protocols : r.protocols[k] = protocols[k]
        ELSE /\ r.res = "Err"
             /\ r.protocols = protocols

\* a protocol, its child and its grandchild are in the registry
HasGrandchild(reg) ==
    \E a, b, c \in DOMAIN reg : reg[b].parent_id = a /\ reg[c].parent_id = b

\* C9 witness: remove_protocol succeeded and a protocol with its child is left
C9_Witness ==
    /\ rlast.op = "remove_protocol"
    /\ rlast.res = "Ok"
    /\ \E a, b \in DOMAIN protocols : protocols[b].parent_id = a

\* C10: update_protocol_id(old, new) with old # new that succeeds leaves no
\* protocol under old, the former protocol with id new under new, parent_id new
\* where it was old and every other parent_id as it was; when new is taken or
\* old is absent it returns an error and the registry is as it was.
C10_UpdateProtocolIdRekeys ==
    \A old_id \in ProtocolIds, new_id \in ProtocolIds :
        old_id # new_id =>
            LET r == update_protocol_id(protocols, old_id, new_id) IN
            IF new_id \in DOMAIN protocols \/ old_id \notin DOMAIN protocols
            THEN /\ r.res = "Err"
                 /\ r.protocols = protocols
            ELSE /\ r.res = "Ok"
                 /\ get_protocol(r.protocols, old_id) = <<>>
                 /\ get_protocol(r.protocols, new_id)
                        = <<[protocols[old_id] EXCEPT !.id = new_id]>>
                 /\ DOMAIN r.protocols = ((DOMAIN protocols) \ {old_id}) \cup {new_id}
                 /\ \A k \in (DOMAIN protocols) \ {old_id} :
                        r.protocols[k] =
                            IF protocols[k].parent_id = old_id
                            THEN [protocols[k] EXCEPT !.parent_id = new_id]
                            ELSE protocols[k]

\* C10 witness: update_protocol_id succeeded in a registry that holds a
\* protocol, its child and its grandchild
C10_Witness ==
    /\ rlast.op = "update_protocol_id"
    /\ rlast.res = "Ok"
    /\ HasGrandchild(protocols)

\* x after old was renamed new
Renamed(old, new, x) == IF x = old THEN new ELSE x

\* C11: no call changes the parent of a protocol: create_protocol gives the new
\* protocol the parent_id it was passed and leaves every other parent_id alone,
\* remove_protocol and edit_protocol leave the parent_id of every protocol that
\* stays as it was, and update_protocol_id(old, new) rewrites a parent_id only
\* from old to new, the new id of the same parent.
C11_ParentNeverChanges ==
    /\ \A id \in ProtocolIds, parent_id \in ParentIds :
          LET r == create_protocol(protocols, id, None, "Big", parent_id) IN
          /\ \A k \in DOMAIN protocols :
                /\ k \in DOMAIN r.protocols
                /\ r.protocols[k].parent_id = protocols[k].parent_id
          /\ r.res = "Ok" => r.protocols[id].parent_id = parent_id
    /\ \A id \in ProtocolIds :
          LET r == remove_protocol(protocols, id) IN
          \A k \in DOMAIN r.protocols :
              /\ k \in DOMAIN protocols
              /\ r.protocols[k].parent_id = protocols[k].parent_id
    /\ \A id \in ProtocolIds, f \in ProtocolMutators :
          LET r == edit_protocol(protocols, id, f) IN
          /\ DOMAIN r.protocols = DOMAIN protocols
          /\ \A k \in DOMAIN protocols :
                r.protocols[k].parent_id = protocols[k].parent_id
    /\ \A old_id \in ProtocolIds, new_id \in ProtocolIds :
          LET r == update_protocol_id(protocols, old_id, new_id) IN
          IF r.res = "Ok"
          THEN \A k \in DOMAIN protocols :
                  /\ Renamed(old_id, new_id, k) \in DOMAIN r.protocols
                  /\ r.protocols[Renamed(old_id, new_id, k)].parent_id
                        = Renamed(old_id, new_id, protocols[k].parent_id)
          ELSE r.protocols = protocols

\* C11 witness: update_protocol_id succeeded and a protocol has two children
C11_Witness ==
    /\ rlast.op = "update_protocol_id"
    /\ rlast.res = "Ok"
    /\ \E a, b, c \in DOMAIN protocols :
          b # c /\ protocols[b].parent_id = a /\ protocols[c].parent_id = a

\* C12: in every reachable registry every protocol is stored under its own id,
\* so no two protocols have the same id and get_protocol(k) is None or a
\* protocol whose id is k.
C12_KeysAreIds ==
    /\ DOMAIN protocols \subseteq ProtocolIds
    /\ \A j, k \in DOMAIN protocols : j # k => protocols[j].id # protocols[k].id
    /\ \A k \in ProtocolIds :
          LET found == get_protocol(protocols, k) IN
          found = <<>> \/ found[1].id = k

\* C12 witness: update_protocol_id succeeded in a registry of three protocols
C12_Witness ==
    /\ rlast.op = "update_protocol_id"
    /\ rlast.res = "Ok"
    /\ Cardinality(DOMAIN protocols) = 3

\* C13: for an id of the registry get_inheritance_chain returns protocols of the
\* registry, the last with that id, the first without parent_id, each other with
\* the id of the one before it as parent_id; for any other id it returns the
\* empty chain.
C13_ChainRootFirst ==
    \A id \in ProtocolIds :
        LET c == get_inheritance_chain(protocols, id)
            n == Len(c.chain)
        IN  /\ c.res = "Ok"
            /\ IF id \in DOMAIN protocols
               THEN /\ n >= 1
                    /\ c.chain[n].id = id
                    /\ c.chain[1].parent_id = None
                    /\ \A i \in 2 .. n : c.chain[i].parent_id = c.chain[i - 1].id
                    /\ \A i \in 1 .. n : get_protocol(protocols, c.chain[i].id) = <<c.chain[i]>>
               ELSE c.chain = <<>>

\* C13 witness: get_inheritance_chain returned a chain of three protocols
C13_Witness ==
    /\ rlast.op = "get_inheritance_chain"
    /\ Len(rlast.value) = 3

\* C16: create_protocol returns an error and leaves the registry as it was when
\* the id is taken or the parent_id names no protocol of the registry (its own
\* id included); otherwise it adds one protocol with that id and parent_id, no
\* fields and length Fixed(0), and leaves every other protocol as it was.
C16_CreateProtocolChecked ==
    \A id \in ProtocolIds, parent_id \in ParentIds :
        LET r == create_protocol(protocols, id, None, "Big", parent_id) IN
        IF id \in DOMAIN protocols
           \/ (parent_id # None /\ parent_id \notin DOMAIN protocols)
        THEN /\ r.res = "Err"
             /\ r.protocols = protocols
        ELSE /\ r.res = "Ok"
             /\ DOMAIN r.protocols = (DOMAIN protocols) \cup {id}
             /\ r.protocols[id].id = id
             /\ r.protocols[id].parent_id = parent_id
             /\ r.protocols[id].fields = <<>>
             /\ r.protocols[id].length = PLFixed(U32(0))
             /\ \A k \in DOMAIN protocols : r.protocols[k] = protocols[k]

\* C16 witness: create_protocol was refused for a parent that does not exist,
\* in a registry of several protocols
C16_Witness ==
    /\ rlast.op = "create_protocol"
    /\ rlast.err = "ParentNotFound"
    /\ Cardinality(DOMAIN protocols) >= 2

-----------------------------------------------------------------------------
(* Properties of the chain queries, checked under SpecLayout *)

\* the sum of the bits of the lengths of the first n protocols of a chain
RECURSIVE SumLengthBits(_, _)
SumLengthBits(chain, n) ==
    IF n = 0 THEN 0
    ELSE SumLengthBits(chain, n - 1) + U32Nat(chain[n].length.bits)

\* the total length a chain stands for: Variable(the bits up to and with the
\* prefix of the first protocol of Variable length) when there is one,
\* Fixed(all the bits) otherwise
ChainLength(chain) ==
    LET variable == {i \in 1 .. Len(chain) : chain[i].length.kind = "Variable"} IN
    IF variable # {}
    THEN LET first == CHOOSE i \in variable : \A j \in variable : i <= j
         IN  PLVariable(U32(SumLengthBits(chain, first)))
    ELSE PLFixed(U32(SumLengthBits(chain, Len(chain))))

\* a closure that adds a Fixed field of the given width
AddFixed(id, bits) ==
    CallOnly([method |-> "add_field",
              rule |-> FieldRule_new(id, TypeFixed0, FixedLen(U32(bits)))])

\* the registries of the two examples: a parent of 8 + 4 bits with a child of 16
\* bits, and a parent of 8 bits with a child of 4 bits and a Variable field
ExampleFixed ==
    LET a == create_protocol(EmptyMap, "P", None, "Big", None).protocols
        b == edit_protocol(a, "P", AddFixed("f1", 8)).protocols
        c == edit_protocol(b, "P", AddFixed("f2", 4)).protocols
        d == create_protocol(c, "C", None, "Big", "P").protocols
    IN  edit_protocol(d, "C", AddFixed("f3", 16)).protocols

ExampleVariable ==
    LET a == create_protocol(EmptyMap, "P", None, "Big", None).protocols
        b == edit_protocol(a, "P", AddFixed("f1", 8)).protocols
        c == create_protocol(b, "C", None, "Big", "P").protocols
        d == edit_protocol(c, "C", AddFixed("f1", 4)).protocols
    IN  edit_protocol(d, "C", CallOnly([method |-> "add_field", rule |-> VariableRule])).protocols

RECURSIVE FieldCount(_, _)
FieldCount(chain, n) ==
    IF n = 0 THEN 0 ELSE FieldCount(chain, n - 1) + Len(chain[n].fields)

\* fields is the field lists of the protocols of the chain one after the other
IsConcatenation(fields, chain) ==
    /\ Len(fields) = FieldCount(chain, Len(chain))
    /\ \A i \in 1 .. Len(chain) :
          \A j \in 1 .. Len(chain[i].fields) :
              fields[FieldCount(chain, i - 1) + j] = chain[i].fields[j]

\* C15: resolve_fields returns an error exactly for an id that is not in the
\* registry; otherwise it returns the fields of the protocols of
\* get_inheritance_chain, root first, each protocol's fields in their order,
\* fields with an id that occurs twice included.
C15_ResolveFieldsConcatenates ==
    \A id \in ProtocolIds :
        LET r == resolve_fields(protocols, id) IN
        IF id \in DOMAIN protocols
        THEN /\ r.res = "Ok"
             /\ IsConcatenation(r.fields, get_inheritance_chain(protocols, id).chain)
        ELSE r.res = "Err"

\* C15 witness: resolve_fields returned the fields of three protocols, two of
\* them with the same id
C15_Witness ==
    /\ rlast.op = "resolve_fields"
    /\ rlast.res = "Ok"
    /\ Len(get_inheritance_chain(protocols, rlast.id).chain) = 3
    /\ \E i, j \in 1 .. Len(rlast.value) :
          i # j /\ rlast.value[i].id = rlast.value[j].id

-----------------------------------------------------------------------------
(* Properties of move_field and update_field_id, checked under Spec *)

\* the fields but those with the given id, in their order
Without(fields, id) == SelectSeq(fields, LAMBDA f : f.id # id)

\* C17: move_field of the id of a field returns Ok, the field is then at index
\* min(new_index, n - 1) of the n fields, and the other fields are what they
\* were, in the order they had; of an id no field has it returns an error and
\* the fields are as they were.
C17_MoveFieldClamps ==
    \A id \in FieldIds, new_index \in MoveIndices :
        LET r == move_field(proto, id, new_index)
            n == Len(proto.fields)
            pos == Position(proto.fields, id)
        IN  IF pos # 0
            THEN /\ r.res = "Ok"
                 /\ Len(r.p.fields) = n
                 /\ r.p.fields[Min(new_index, n - 1) + 1] = proto.fields[pos]
                 /\ Without(r.p.fields, id) = Without(proto.fields, id)
            ELSE /\ r.res = "Err"
                 /\ r.p.fields = proto.fields

\* C17 witness: move_field succeeded on a protocol of three fields
C17_Witness ==
    /\ last.op = "move_field"
    /\ last.res = "Ok"
    /\ Len(proto.fields) = 3

\* C18: update_field_id(old, new) with old = new returns Ok and changes
\* nothing; when a field has id new it returns an error and changes nothing;
\* otherwise when no field has id old it returns an error; otherwise it returns
\* Ok, the field has id new at the index and with the attributes it had, and
\* every other field and the length are what they were.
C18_UpdateFieldIdRenamesInPlace ==
    \A old_id \in FieldIds, new_id \in FieldIds :
        LET r == update_field_id(proto, old_id, new_id)
            pos == Position(proto.fields, old_id)
        IN  IF old_id = new_id
            THEN r.res = "Ok" /\ r.p = proto
            ELSE IF AnyFieldId(proto.fields, new_id)
            THEN r.err = "DuplicateFieldId" /\ r.p = proto
            ELSE IF pos = 0
            THEN r.err = "FieldNotFound" /\ r.p = proto
            ELSE /\ r.res = "Ok"
                 /\ Len(r.p.fields) = Len(proto.fields)
                 /\ r.p.fields[pos] = [proto.fields[pos] EXCEPT !.id = new_id]
                 /\ \A i \in 1 .. Len(proto.fields) :
                       i # pos => r.p.fields[i] = proto.fields[i]
                 /\ r.p.length = proto.length

\* C18 witness: update_field_id renamed a field of a protocol whose last field
\* has Variable length
C18_Witness ==
    /\ last.op = "update_field_id"
    /\ last.res = "Ok"
    /\ Len(proto.fields) >= 2
    /\ LastIsVariable(proto.fields)

-----------------------------------------------------------------------------
(* Properties of a Packet, checked under SpecPacket *)

\* the indices of the fields whose value is empty
EmptyValues(pkt) ==
    {i \in 1 .. Len(pkt.field_values) : pkt.field_values[i].value = <<>>}

\* C19: Packet::new gives one Field per rule, in the order of the rules, with
\* the id of the rule, an empty value and ignore_rules false; set_field_value
\* with an index out of range returns an error and leaves the packet as it was,
\* with an index in range it replaces the value of that entry alone; so after
\* any calls of set_field_value the entries are as many as the rules the packet
\* was built from, with their ids in their order.
C19_SetFieldValueKeepsShape ==
    /\ \A field_rules \in PacketRuleSeqs :
          LET built == Packet_new("p", field_rules) IN
          /\ built.protocol_id = "p"
          /\ Len(built.field_values) = Len(field_rules)
          /\ \A i \in 1 .. Len(field_rules) :
                /\ built.field_values[i].rule_id = field_rules[i].id
                /\ built.field_values[i].value = <<>>
                /\ built.field_values[i].ignore_rules = FALSE
    /\ \A index \in PacketIndices, value \in ByteSeqs :
          LET r == set_field_value(packet, index, value) IN
          IF index >= Len(packet.field_values)
          THEN r.res = "Err" /\ r.packet = packet
          ELSE /\ r.res = "Ok"
               /\ r.packet.protocol_id = packet.protocol_id
               /\ Len(r.packet.field_values) = Len(packet.field_values)
               /\ r.packet.field_values[index + 1].value = value
               /\ r.packet.field_values[index + 1].rule_id
                     = packet.field_values[index + 1].rule_id
               /\ \A i \in 1 .. Len(packet.field_values) :
                     i # index + 1 => r.packet.field_values[i] = packet.field_values[i]
    /\ Len(packet.field_values) = Len(plast.built_from)
    /\ \A i \in 1 .. Len(plast.built_from) :
          packet.field_values[i].rule_id = plast.built_from[i].id

\* C19 witness: set_field_value was refused for its index on a packet of
\* several fields, one with a value
C19_Witness ==
    /\ plast.op = "set_field_value"
    /\ plast.err = "IndexNotFound"
    /\ Len(packet.field_values) >= 2
    /\ EmptyValues(packet) # DOMAIN packet.field_values

\* C20: is_complete is true exactly when no field has an empty value: of a
\* packet as Packet::new built it, exactly when it has no field; after
\* set_field_value wrote an empty value, never; after it wrote a value that is
\* not empty, exactly when no other field has an empty value.
C20_CompleteIffNoEmptyValue ==
    /\ is_complete(packet) <=> EmptyValues(packet) = {}
    /\ plast.op = "is_complete" => (plast.value <=> EmptyValues(packet) = {})
    /\ \A field_rules \in PacketRuleSeqs :
          is_complete(Packet_new("p", field_rules)) <=> Len(field_rules) = 0
    /\ \A index \in PacketIndices, value \in ByteSeqs :
          index < Len(packet.field_values) =>
              (is_complete(set_field_value(packet, index, value).packet)
                  <=> (value # <<>> /\ EmptyValues(packet) \subseteq {index + 1}))

\* C20 witness: is_complete returned true for a packet of three fields
C20_Witness ==
    /\ plast.op = "is_complete"
    /\ plast.value
    /\ Len(packet.field_values) = 3

-----------------------------------------------------------------------------
(* Properties of the parent_id graph, checked under SpecRegistry *)

\* C21: in every reachable registry the parent_id of every protocol is None or
\* the id of a protocol of the registry, so the chain of a protocol of the
\* registry ends at a protocol without parent_id.
C21_NoDanglingParent ==
    /\ \A k \in DOMAIN protocols :
          protocols[k].parent_id = None \/ contains_key(protocols, protocols[k].parent_id)
    /\ \A k \in DOMAIN protocols :
          get_inheritance_chain(protocols, k).chain[1].parent_id = None

\* C21 witness: remove_protocol took a protocol with its children out of a
\* registry where another protocol and its child stay
C21_Witness ==
    /\ rlast.op = "remove_protocol"
    /\ rlast.res = "Ok"
    /\ Cardinality(DOMAIN protocols) = 2
    /\ \E a, b \in DOMAIN protocols : protocols[b].parent_id = a

\* the elements of a chain are different protocols
NoRepeat(chain) ==
    \A i, j \in 1 .. Len(chain) : i # j => chain[i].id # chain[j].id

\* C22: in every reachable registry no protocol is its own ancestor, so the
\* walks of get_inheritance_chain, get_total_length and resolve_fields and the
\* collection loop of remove_protocol end, and no protocol is twice in a chain.
C22_ParentGraphAcyclic ==
    /\ \A k \in DOMAIN protocols :
          ~HasAncestor(protocols, k, k, Cardinality(DOMAIN protocols))
    /\ \A id \in ProtocolIds :
          /\ get_inheritance_chain(protocols, id).res # "Hang"
          /\ NoRepeat(get_inheritance_chain(protocols, id).chain)
          /\ get_total_length(protocols, id).res # "Hang"
          /\ resolve_fields(protocols, id).res # "Hang"
          /\ remove_protocol(protocols, id).res # "Hang"

\* C22 witness: get_inheritance_chain returned a chain of two protocols in a
\* registry of three
C22_Witness ==
    /\ rlast.op = "get_inheritance_chain"
    /\ rlast.res = "Ok"
    /\ Len(rlast.value) = 2
    /\ Cardinality(DOMAIN protocols) = 3

-----------------------------------------------------------------------------
(* Properties of lengths and fields along a chain, checked under SpecLayout *)

\* C23: for every protocol of a reachable registry, get_total_length is the
\* length the fields of resolve_fields stand for: the Fixed widths summed up to
\* the first Variable field.
C23_TotalLengthMatchesResolvedFields ==
    \A id \in DOMAIN protocols :
        get_total_length(protocols, id).value
            = DerivedLength(resolve_fields(protocols, id).fields)

\* the invariants of a Protocol: unique field ids, no Variable field but the
\* last, the length the fields stand for
WellFormed(p) ==
    /\ UniqueFieldIds(p.fields)
    /\ SingleTrailingVariable(p.fields)
    /\ p.length = DerivedLength(p.fields)

\* closures that change neither id nor parent_id: those that call one Protocol
\* method, and one that pushes a rule onto p.fields itself
ArbitraryMutators ==
    {CallOnly(call) : call \in LayoutCalls}
    \cup {CallOnly([method |-> "fields.push", rule |-> RegistryRule])}

\* C24: when edit_protocol returns Ok for a closure that changed neither id nor
\* parent_id, the edited protocol, whose invariants held before, has unique
\* field ids, no Variable field but the last, and the length its fields stand
\* for.
C24_EditProtocolKeepsInvariants ==
    \A id \in DOMAIN protocols, f \in ArbitraryMutators :
        LET r == edit_protocol(protocols, id, f) IN
        (r.res = "Ok" /\ WellFormed(protocols[id])) => WellFormed(r.protocols[id])

\* C25: update_protocol_id(old, new) that succeeds leaves, for the renamed
\* protocol and each of its descendants, a chain of the same protocols in the
\* same order, new in the place of old, and the results of resolve_fields and
\* get_total_length as they were.
C25_RenameKeepsInheritance ==
    \A old_id \in DOMAIN protocols, new_id \in ProtocolIds \ DOMAIN protocols :
        LET r == update_protocol_id(protocols, old_id, new_id) IN
        /\ r.res = "Ok"
        /\ \A k \in Subtree(protocols, old_id) :
              LET now == Renamed(old_id, new_id, k)
                  before == get_inheritance_chain(protocols, k).chain
                  after == get_inheritance_chain(r.protocols, now).chain
              IN  /\ Len(after) = Len(before)
                  /\ \A i \in 1 .. Len(before) :
                        /\ after[i].id = Renamed(old_id, new_id, before[i].id)
                        /\ after[i].fields = before[i].fields
                        /\ after[i].length = before[i].length
                  /\ resolve_fields(r.protocols, now) = resolve_fields(protocols, k)
                  /\ get_total_length(r.protocols, now) = get_total_length(protocols, k)

\* C25 witness: update_protocol_id succeeded in a registry that holds a
\* protocol, its child and its grandchild, one of the descendants with a
\* Variable length
C25_Witness ==
    /\ rlast.op = "update_protocol_id"
    /\ rlast.res = "Ok"
    /\ HasGrandchild(protocols)
    /\ \E k \in DOMAIN protocols :
          protocols[k].parent_id # None /\ protocols[k].length.kind = "Variable"

-----------------------------------------------------------------------------
(* Arithmetic on lengths, checked under SpecWide *)

\* the sums of the limbs of the first n u32 values of a sequence, not reduced
RECURSIVE LimbSums(_, _)
LimbSums(values, n) ==
    IF n = 0 THEN [hi |-> 0, lo |-> 0]
    ELSE LET rest == LimbSums(values, n - 1) IN
         [hi |-> rest.hi + values[n].hi, lo |-> rest.lo + values[n].lo]

\* the sum of the u32 values of a sequence is above u32::MAX
Exceeds(values) ==
    LET sums == LimbSums(values, Len(values)) IN
    sums.hi + (sums.lo \div U32Limb) >= U32Limb

\* the widths calculate_length adds up: those of the fields before the first
\* Variable field
AddedWidths(fields) ==
    LET stop == IF VariableIndices(fields) = {} THEN Len(fields) + 1
                ELSE CHOOSE i \in VariableIndices(fields) :
                        \A j \in VariableIndices(fields) : i <= j
    IN  [i \in 1 .. (stop - 1) |-> fields[i].length.bits]

\* the bits get_total_length adds up: those of the protocols of the chain up to
\* and with the first of Variable length
AddedLengths(chain) ==
    LET variable == {i \in 1 .. Len(chain) : chain[i].length.kind = "Variable"}
        stop == IF variable = {} THEN Len(chain)
                ELSE CHOOSE i \in variable : \A j \in variable : i <= j
    IN  [i \in 1 .. stop |-> chain[i].length.bits]

\* C26: no call aborts on arithmetic and no sum of bit widths is above
\* u32::MAX: not the widths calculate_length adds up for the fields of a
\* protocol, not the bits get_total_length adds up along a chain.
C26_NoArithmeticFault ==
    /\ rlast.res # "Panic"
    /\ \A k \in DOMAIN protocols : ~Exceeds(AddedWidths(protocols[k].fields))
    /\ \A id \in DOMAIN protocols :
          /\ get_total_length(protocols, id).res # "Panic"
          /\ ~Exceeds(AddedLengths(get_inheritance_chain(protocols, id).chain))

=============================================================================
